---- MODULE Spec2Model ----
(***************************************************************************)
(* Model of pkg/git/client.go: the git cache client.                       *)
(*   - lockRepo / unlockRepo : the per-repository lock registry            *)
(*   - retryCommand          : the constant-backoff retry loop             *)
(*   - Clone                 : mirror update (clone --mirror / fetch)      *)
(*                             followed by a local clone and SetUser       *)
(*   - GetLatestRemoteHashForBranch, Clean                                 *)
(* Every caller (goroutine) is a process with a program counter; external  *)
(* commands (git, os.Stat, os.MkdirAll) are steps whose outcome the        *)
(* environment chooses.                                                    *)
(*                                                                         *)
(* Specifications:                                                         *)
(*   Spec                Clone calls from all callers, Clean called as its *)
(*                       doc comment asks: after use, nothing in flight    *)
(*   SpecConcurrentClean the same with Clean callable at any moment        *)
(*   SpecRetry           retryCommand called directly with any attempt     *)
(*                       count, GetLatestRemoteHashForBranch, cancellation *)
(*   SpecLive            a bounded number of Clone calls, every call's     *)
(*                       steps weakly fair: termination                    *)
(***************************************************************************)
EXTENDS Integers, Sequences, FiniteSets, TLC

\* ---------------------------------------------------------------- bounds
MaxRetries == 3          \* largest attempt count given to retryCommand directly
MaxCalls == 2            \* Clone calls in all where termination is checked

\* ------------------------------------------------------ program constants
CloneRetries == 3        \* retryCommand(3, ...) for clone --mirror
FetchRetries == 3        \* retryCommand(3, ...) for fetch
LsRemoteRetries == 3     \* retryCommand(3, ...) for ls-remote

Procs == {"c1", "c2"}                \* concurrent callers
NoProc == "nobody"
Repos == {"org/a", "org/b"}          \* repoFullName values
Bases == {"hostX", "hostY"}          \* base values
Branches == {"main", "dev"}          \* branch values

\* The base each caller passes (callers differ in it, the key ignores it).
CallerBase(p) == IF p = "c1" THEN "hostX" ELSE "hostY"

\* Tokens of a command's combined output; ls-remote prints <hash> TAB <ref> NL.
TAB == "\t"
Outputs ==
  { << >>,
    << "abc123" >>,
    << "abc123", TAB, "refs/heads/main", "\n" >>,
    << "fff999", TAB, "refs/heads/dev", "\n" >> }
FailOutput == << "fatal" >>

VARIABLES
  username, email,   \* client.username, client.email ("" = empty)
  mu,                \* client.mu: NoProc, or the caller holding it
  repoLocks,         \* client.repoLocks: key -> lock instance (0 = no entry)
  locked,            \* the lock instances <<key, instance>> that are locked
  mirror,            \* cacheDir/<key>.git on disk: "absent", "partial", "present"
  origin,            \* the remote recorded in that mirror's config ("none" = no mirror)
  pc,                \* each caller's position
  op,                \* each caller's current call: "none", "Clone", "GetHash", "retry"
  repo, base, branch,\* arguments of the current call
  cancelled,         \* ctx of the current call is done
  muRef,             \* lockRepo's local mu: the instance read from the map
  statRes,           \* result of os.Stat(repoCachePath): "none", "exists", "notexist", "error"
  retries, i, out, err, \* retryCommand's parameters and locals
  cmd,               \* the last command run by runGitCommand
  dest,              \* the call's destination: "none", "dir", "checkout"
  result,            \* what the call returns
  hash,              \* GetLatestRemoteHashForBranch's returned string
  calls,             \* the Clone calls counted so far (counted under SpecLive only)
  hist,              \* per call: what the call has done so far (observation only)
  lastOutcome        \* per key: how the last Clone's mirror update ended (observation only)

vars == << username, email, mu, repoLocks, locked, mirror, origin, pc, op, repo, base,
           branch, cancelled, muRef, statRes, retries, i, out, err, cmd, dest,
           result, hash, calls, hist, lastOutcome >>

clientVars == << username, email >>
lockVars == << mu, repoLocks, locked, muRef >>
retryVars == << retries, i, out, err >>
argVars == << op, repo, base, branch >>

NoLast == [ ok |-> FALSE, out |-> << >>, err |-> "nil" ]
NoHist ==
  [ invoke |-> 0, sleep |-> 0, warn |-> 0, afterOK |-> 0, last |-> NoLast,
    verbs |-> {}, cloned |-> 0, seen |-> "none", lock |-> 0 ]

NoCmd == [ dir |-> "", verb |-> "none", remote |-> << >>, path |-> "", dst |-> "", ref |-> "" ]

Remote(b, r) == << b, r >>           \* fmt.Sprintf("%s/%s", base, repoFullName)
NoRemote == << >>
NoOrigin == "none"                   \* no mirror, so no remote.origin.url
RepoCachePath(r) == r                \* filepath.Join(c.cacheDir, repoFullName) + ".git"
NoHandle == << >>
NoResult == [ code |-> "none", handle |-> NoHandle ]
Failure(code) == [ code |-> code, handle |-> NoHandle ]

\* Mutant: the handle is bound to the remote the mirror was cloned from.
NewRepo_MirrorRemote(r, p, remote) ==
  [ name |-> r, path |-> p, remote |-> Remote(origin[r], r) ]

\* NewRepo(repoFullName, destination, c.gitPath, remote, c.logger)
NewRepo(r, p, remote) == [ name |-> r, path |-> p, remote |-> remote ]

\* NewClient: the identity is fixed at construction; nothing is locked or cached.
Init ==
  /\ username \in {"", "bot"}
  /\ email \in {"", "bot@example.com"}
  /\ mu = NoProc
  /\ repoLocks = [r \in Repos |-> 0]
  /\ locked = {}
  /\ mirror = [r \in Repos |-> "absent"]
  /\ origin = [r \in Repos |-> NoOrigin]
  /\ pc = [p \in Procs |-> "idle"]
  /\ op = [p \in Procs |-> "none"]
  /\ repo = [p \in Procs |-> "org/a"]
  /\ base = [p \in Procs |-> "hostX"]
  /\ branch = [p \in Procs |-> "main"]
  /\ cancelled = [p \in Procs |-> FALSE]
  /\ muRef = [p \in Procs |-> << >>]
  /\ statRes = [p \in Procs |-> "none"]
  /\ retries = [p \in Procs |-> 0]
  /\ i = [p \in Procs |-> 0]
  /\ out = [p \in Procs |-> << >>]
  /\ err = [p \in Procs |-> "nil"]
  /\ cmd = [p \in Procs |-> NoCmd]
  /\ dest = [p \in Procs |-> "none"]
  /\ result = [p \in Procs |-> NoResult]
  /\ hash = [p \in Procs |-> << >>]
  /\ calls = 0
  /\ hist = [p \in Procs |-> NoHist]
  /\ lastOutcome = [r \in Repos |-> "none"]

\* A call starts: its arguments are bound.
StartCall(p, o, b, r, br) ==
  /\ pc[p] = "idle"
  /\ op' = [op EXCEPT ![p] = o]
  /\ base' = [base EXCEPT ![p] = b]
  /\ repo' = [repo EXCEPT ![p] = r]
  /\ branch' = [branch EXCEPT ![p] = br]

\* A call has returned: its arguments, locals and results are gone.
EndCall(p) ==
  /\ pc' = [pc EXCEPT ![p] = "idle"]
  /\ op' = [op EXCEPT ![p] = "none"]
  /\ base' = [base EXCEPT ![p] = "hostX"]
  /\ repo' = [repo EXCEPT ![p] = "org/a"]
  /\ branch' = [branch EXCEPT ![p] = "main"]
  /\ cancelled' = [cancelled EXCEPT ![p] = FALSE]
  /\ muRef' = [muRef EXCEPT ![p] = << >>]
  /\ statRes' = [statRes EXCEPT ![p] = "none"]
  /\ retries' = [retries EXCEPT ![p] = 0]
  /\ i' = [i EXCEPT ![p] = 0]
  /\ out' = [out EXCEPT ![p] = << >>]
  /\ err' = [err EXCEPT ![p] = "nil"]
  /\ cmd' = [cmd EXCEPT ![p] = NoCmd]
  /\ dest' = [dest EXCEPT ![p] = "none"]
  /\ result' = [result EXCEPT ![p] = NoResult]
  /\ hash' = [hash EXCEPT ![p] = << >>]
  /\ hist' = [hist EXCEPT ![p] = NoHist]

\* ------------------------------------------------- lockRepo / unlockRepo

\* Mutant: every lockRepo call stores a fresh mutex under the key.
lockRepo_lookup_Fresh(locks, key) == [locks EXCEPT ![key] = (@ % 2) + 1]

\* if _, ok := c.repoLocks[key]; !ok { c.repoLocks[key] = &sync.Mutex{} }
lockRepo_lookup(locks, key) ==
  IF locks[key] = 0 THEN [locks EXCEPT ![key] = 1] ELSE locks

\* Mutant: lockRepo releases c.mu only after it has locked the per-key mutex.
RegistryFree_AfterKeyLock(p) ==
  /\ mu = NoProc
  /\ \A q \in Procs \ {p} : pc[q] # "lockRepo_lock"

\* c.mu.Lock() returns only when c.mu is unlocked.
RegistryFree(p) == mu = NoProc

\* Mutant: Lock returns at once, whoever holds the mutex.
MutexFree_NoWait(inst) == TRUE

\* Mutant: one mutex for all keys.
MutexFree_Global(inst) == locked = {}

\* sync.Mutex.Lock returns only when the mutex is unlocked.
MutexFree(inst) == inst \notin locked

\* c.mu.Lock() in lockRepo
LockRepoMu(p) ==
  /\ pc[p] = "lockRepo_mu"
  /\ RegistryFree(p)
  /\ mu' = p
  /\ pc' = [pc EXCEPT ![p] = "lockRepo_map"]
  /\ UNCHANGED << clientVars, calls, repoLocks, locked, muRef, mirror, origin, argVars, cancelled,
                  statRes, retryVars, cmd, dest, result, hash, hist, lastOutcome >>

\* the map lookup, mu := c.repoLocks[key], c.mu.Unlock()
LockRepoMap(p) ==
  /\ pc[p] = "lockRepo_map"
  /\ mu = p
  /\ repoLocks' = lockRepo_lookup(repoLocks, repo[p])
  /\ muRef' = [muRef EXCEPT ![p] = << repo[p], repoLocks'[repo[p]] >>]
  /\ mu' = NoProc
  /\ pc' = [pc EXCEPT ![p] = "lockRepo_lock"]
  /\ UNCHANGED << clientVars, calls, locked, mirror, origin, argVars, cancelled,
                  statRes, retryVars, cmd, dest, result, hash, hist, lastOutcome >>

\* mu.Lock() on the per-key mutex
LockRepoLock(p) ==
  /\ pc[p] = "lockRepo_lock"
  /\ MutexFree(muRef[p])
  /\ locked' = locked \cup {muRef[p]}
  /\ hist' = [hist EXCEPT ![p].lock = @ + 1]
  /\ pc' = [pc EXCEPT ![p] = "stat"]
  /\ UNCHANGED << clientVars, calls, mu, repoLocks, muRef, mirror, origin, argVars, cancelled,
                  statRes, retryVars, cmd, dest, result, hash, lastOutcome >>

\* c.mu.Lock() in unlockRepo (the deferred call)
UnlockRepoMu(p) ==
  /\ pc[p] = "unlockRepo_mu"
  /\ RegistryFree(p)
  /\ mu' = p
  /\ pc' = [pc EXCEPT ![p] = "unlockRepo_unlock"]
  /\ UNCHANGED << clientVars, calls, repoLocks, locked, muRef, mirror, origin, argVars, cancelled,
                  statRes, retryVars, cmd, dest, result, hash, hist, lastOutcome >>

\* c.repoLocks[key].Unlock(); c.mu.Unlock(); Clone returns to its caller
UnlockRepoUnlock(p) ==
  /\ pc[p] = "unlockRepo_unlock"
  /\ mu = p
  /\ locked' = locked \ {<< repo[p], repoLocks[repo[p]] >>}
  /\ mu' = NoProc
  /\ EndCall(p)
  /\ UNCHANGED << clientVars, calls, repoLocks, mirror, origin, lastOutcome >>

\* ------------------------------------------- runGitCommand / retryCommand

\* ref := "refs/heads/" + branch
RefOf(br) == IF br = "main" THEN "refs/heads/main" ELSE "refs/heads/dev"

\* Mutant: the test of os.IsNotExist(err) inverted.
Commander_Inverted(p) ==
  CASE op[p] = "Clone" /\ statRes[p] = "notexist" -> "fetch"
    [] op[p] = "Clone" -> "clone --mirror"
    [] op[p] = "GetHash" -> "ls-remote"
    [] OTHER -> "command"

\* The closure retryCommand is given: which git command it runs.
Commander(p) ==
  CASE op[p] = "Clone" /\ statRes[p] = "notexist" -> "clone --mirror"
    [] op[p] = "Clone" -> "fetch"
    [] op[p] = "GetHash" -> "ls-remote"
    [] OTHER -> "command"

\* c.runGitCommand(ctx, dir, args...): the command line each closure builds.
GitCommand(p) ==
  CASE Commander(p) = "clone --mirror" ->
         [ dir |-> "", verb |-> "clone --mirror", remote |-> Remote(base[p], repo[p]),
           path |-> RepoCachePath(repo[p]), dst |-> "", ref |-> "" ]
    [] Commander(p) = "fetch" ->
         [ dir |-> RepoCachePath(repo[p]), verb |-> "fetch", remote |-> NoRemote,
           path |-> "", dst |-> "", ref |-> "" ]
    [] Commander(p) = "ls-remote" ->
         [ dir |-> "", verb |-> "ls-remote", remote |-> NoRemote,
           path |-> "", dst |-> "", ref |-> RefOf(branch[p]) ]
    [] OTHER ->
         [ dir |-> "", verb |-> "command", remote |-> NoRemote,
           path |-> "", dst |-> "", ref |-> "" ]

\* exec.CommandContext: a command whose ctx is done does not succeed; fetch
\* runs in the mirror directory, which has to exist.
CanSucceed(p) ==
  /\ ~cancelled[p]
  /\ Commander(p) = "fetch" => mirror[repo[p]] # "absent"

\* What the command leaves at the mirror path: a successful clone --mirror the
\* mirror, a failed one nothing or partial output, any other command no change.
MirrorAfter(p, ok) ==
  IF Commander(p) = "clone --mirror"
    THEN IF ok THEN {"present"}
         ELSE IF cancelled[p] THEN {mirror[repo[p]]}
         ELSE {mirror[repo[p]], IF mirror[repo[p]] = "absent" THEN "partial"
                                                              ELSE mirror[repo[p]]}
    ELSE {mirror[repo[p]]}

\* git clone --mirror <remote> <path> writes <remote> as remote.origin.url of
\* what it creates at <path>; fetch reads it and leaves it as it is.
OriginAfter(p, m) ==
  IF Commander(p) = "clone --mirror" /\ m # mirror[repo[p]]
    THEN base[p]
    ELSE origin[repo[p]]

\* The combined output of the command.
OutputOf(p, ok) ==
  IF ~ok THEN {FailOutput}
  ELSE IF Commander(p) \in {"ls-remote", "command"} THEN Outputs
  ELSE {<< >>}

\* Mutant: the loop bound off by one (i <= retries).
LoopCond_OffByOne(p) == i[p] <= retries[p]

\* for i := 0; i < retries; i++
LoopCond(p) == i[p] < retries[p]

\* Mutant: the success test is missing; every attempt is logged and slept on.
StopsOn_Never(e) == FALSE

\* Mutant: return after the first attempt whatever its error.
StopsOn_Always(e) == TRUE

\* if err == nil { return }
StopsOn(e) == e = "nil"

\* out, err = commander(), then either return or logger.Warn(...)
RetryInvoke(p) ==
  /\ pc[p] = "retry_loop"
  /\ LoopCond(p)
  /\ \E ok \in BOOLEAN :
       /\ ok => CanSucceed(p)
       /\ \E m \in MirrorAfter(p, ok) :
            /\ mirror' = [mirror EXCEPT ![repo[p]] = m]
            /\ origin' = [origin EXCEPT ![repo[p]] = OriginAfter(p, m)]
       /\ \E o \in OutputOf(p, ok) : out' = [out EXCEPT ![p] = o]
       /\ err' = [err EXCEPT ![p] = IF ok THEN "nil"
                                    ELSE IF cancelled[p] THEN "canceled" ELSE "failed"]
       /\ cmd' = [cmd EXCEPT ![p] = GitCommand(p)]
       /\ hist' = [hist EXCEPT
            ![p].invoke = @ + 1,
            ![p].warn = IF StopsOn(err'[p]) THEN @ ELSE @ + 1,
            ![p].afterOK = IF hist[p].invoke > 0 /\ hist[p].last.ok THEN @ + 1 ELSE @,
            ![p].last = [ ok |-> ok, out |-> out'[p], err |-> err'[p] ],
            ![p].verbs = @ \cup {Commander(p)},
            ![p].cloned = IF ok /\ Commander(p) = "clone --mirror" THEN @ + 1 ELSE @]
       /\ pc' = [pc EXCEPT ![p] = IF StopsOn(err'[p]) THEN "retry_ret" ELSE "retry_sleep"]
  /\ UNCHANGED << clientVars, calls, lockVars, argVars, cancelled, statRes, retries, i,
                  dest, result, hash, lastOutcome >>

\* time.Sleep(interval); i++
RetrySleep(p) ==
  /\ pc[p] = "retry_sleep"
  /\ hist' = [hist EXCEPT ![p].sleep = @ + 1]
  /\ i' = [i EXCEPT ![p] = @ + 1]
  /\ pc' = [pc EXCEPT ![p] = "retry_loop"]
  /\ UNCHANGED << clientVars, calls, lockVars, mirror, origin, argVars, cancelled, statRes, retries,
                  out, err, cmd, dest, result, hash, lastOutcome >>

\* the loop ends with i = retries: return the last out, err
RetryExhausted(p) ==
  /\ pc[p] = "retry_loop"
  /\ ~LoopCond(p)
  /\ pc' = [pc EXCEPT ![p] = "retry_ret"]
  /\ UNCHANGED << clientVars, calls, lockVars, mirror, origin, argVars, cancelled, statRes, retryVars,
                  cmd, dest, result, hash, hist, lastOutcome >>

\* The caller's context is cancelled (or its deadline passes) while
\* retryCommand is running.
Cancel(p) ==
  /\ pc[p] \in {"retry_loop", "retry_sleep"}
  /\ ~cancelled[p]
  /\ cancelled' = [cancelled EXCEPT ![p] = TRUE]
  /\ UNCHANGED << clientVars, calls, lockVars, mirror, origin, pc, argVars, statRes, retryVars,
                  cmd, dest, result, hash, hist, lastOutcome >>

\* retryCommand(n, interval, logger, commander) called directly
RetryStart(p) ==
  /\ StartCall(p, "retry", base[p], repo[p], branch[p])
  /\ \E n \in 0..MaxRetries : retries' = [retries EXCEPT ![p] = n]
  /\ pc' = [pc EXCEPT ![p] = "retry_loop"]
  /\ UNCHANGED << clientVars, calls, lockVars, mirror, origin, cancelled, statRes, i, out, err,
                  cmd, dest, result, hash, hist, lastOutcome >>

\* the direct caller has received (out, err)
RetryDone(p) ==
  /\ pc[p] = "retry_ret"
  /\ op[p] = "retry"
  /\ EndCall(p)
  /\ UNCHANGED << clientVars, calls, mu, repoLocks, locked, mirror, origin, lastOutcome >>

\* ------------------------------------------------------------------ Clone

\* Clone(ctx, base, repoFullName, destination): c.lockRepo(repoFullName)
CloneStart(p) ==
  /\ \E r \in Repos : StartCall(p, "Clone", CallerBase(p), r, branch[p])
  /\ pc' = [pc EXCEPT ![p] = "lockRepo_mu"]
  /\ UNCHANGED << clientVars, calls, lockVars, mirror, origin, cancelled, statRes, retryVars,
                  cmd, dest, result, hash, hist, lastOutcome >>

\* The same call where the callers make at most MaxCalls calls in all.
CloneStartCounted(p) ==
  /\ calls < MaxCalls
  /\ \E r \in Repos : StartCall(p, "Clone", CallerBase(p), r, branch[p])
  /\ pc' = [pc EXCEPT ![p] = "lockRepo_mu"]
  /\ calls' = calls + 1
  /\ UNCHANGED << clientVars, lockVars, mirror, origin, cancelled, statRes, retryVars,
                  cmd, dest, result, hash, hist, lastOutcome >>

\* How a finished Clone's mirror update ended, for the key's next Clone.
OutcomeOf(code, before) ==
  CASE code = "clone" -> "cloneFailed"
    [] code = "fetch" -> "fetchFailed"
    [] code \in {"stat", "mkdirCache"} -> before
    [] OTHER -> "updated"

\* Mutant: a failing Clone removes the mirror before it returns.
CloneReturn_Rollback(p, res) ==
  /\ result' = [result EXCEPT ![p] = res]
  /\ lastOutcome' = [lastOutcome EXCEPT ![repo[p]] = OutcomeOf(res.code, @)]
  /\ pc' = [pc EXCEPT ![p] = "unlockRepo_mu"]
  /\ mirror' = [mirror EXCEPT ![repo[p]] = IF res.code = "ok" THEN @ ELSE "absent"]
  /\ UNCHANGED origin

\* Mutant: unlockRepo is called on the success path only, not deferred.
CloneReturn_UnlockOnSuccessOnly(p, res) ==
  /\ result' = [result EXCEPT ![p] = res]
  /\ lastOutcome' = [lastOutcome EXCEPT ![repo[p]] = OutcomeOf(res.code, @)]
  /\ pc' = [pc EXCEPT ![p] = IF res.code = "ok" THEN "unlockRepo_mu" ELSE "idle"]
  /\ UNCHANGED << mirror, origin >>

\* return nil, err / return r, nil: the deferred unlockRepo runs next
CloneReturn(p, res) ==
  /\ result' = [result EXCEPT ![p] = res]
  /\ lastOutcome' = [lastOutcome EXCEPT ![repo[p]] = OutcomeOf(res.code, @)]
  /\ pc' = [pc EXCEPT ![p] = "unlockRepo_mu"]
  /\ UNCHANGED << mirror, origin >>

\* Mutant: a path that holds no valid mirror counts as missing.
StatOutcomes_PartialAsMissing(r) ==
  IF mirror[r] = "present" THEN {"exists", "error"} ELSE {"notexist", "error"}

\* What os.Stat(repoCachePath) can answer.
StatOutcomes(r) ==
  IF mirror[r] = "absent" THEN {"notexist", "error"} ELSE {"exists", "error"}

\* Mutant: the test for an error other than "does not exist" is missing.
CloneStat_NoErrorCheck(p) ==
  /\ pc[p] = "stat"
  /\ \E s \in StatOutcomes(repo[p]) :
       /\ statRes' = [statRes EXCEPT ![p] = s]
       /\ pc' = [pc EXCEPT ![p] = IF s = "notexist" THEN "mkdirCache" ELSE "retry_loop"]
       /\ retries' = [retries EXCEPT ![p] = IF s = "notexist" THEN @ ELSE FetchRetries]
       /\ UNCHANGED << i, out, err, result, lastOutcome, mirror, origin >>
  /\ hist' = [hist EXCEPT ![p].seen = mirror[repo[p]]]
  /\ UNCHANGED << clientVars, calls, lockVars, argVars, cancelled, cmd, dest, hash >>

\* _, err := os.Stat(repoCachePath) and the two tests of err
CloneStat(p) ==
  /\ pc[p] = "stat"
  /\ \E s \in StatOutcomes(repo[p]) :
       /\ statRes' = [statRes EXCEPT ![p] = s]
       /\ IF s = "error"
            THEN /\ CloneReturn(p, Failure("stat"))
                 /\ UNCHANGED retryVars
            ELSE /\ pc' = [pc EXCEPT ![p] = IF s = "notexist" THEN "mkdirCache"
                                                              ELSE "retry_loop"]
                 /\ retries' = [retries EXCEPT ![p] = IF s = "notexist" THEN @
                                                       ELSE FetchRetries]
                 /\ UNCHANGED << i, out, err, result, lastOutcome, mirror, origin >>
  /\ hist' = [hist EXCEPT ![p].seen = mirror[repo[p]]]
  /\ UNCHANGED << clientVars, calls, lockVars, argVars, cancelled, cmd, dest, hash >>

\* os.MkdirAll(filepath.Dir(repoCachePath), os.ModePerm)
CloneMkdirCache(p) ==
  /\ pc[p] = "mkdirCache"
  /\ \E ok \in BOOLEAN :
       IF ok
         THEN /\ pc' = [pc EXCEPT ![p] = "retry_loop"]
              /\ retries' = [retries EXCEPT ![p] = CloneRetries]
              /\ UNCHANGED << result, lastOutcome, mirror, origin >>
         ELSE /\ CloneReturn(p, Failure("mkdirCache"))
              /\ UNCHANGED retries
  /\ UNCHANGED << clientVars, calls, lockVars, argVars, cancelled, statRes, i, out,
                  err, cmd, dest, hash, hist >>

\* Mutant: the error of the mirror update is dropped.
CloneAfterUpdate_IgnoreErr(p) ==
  /\ pc[p] = "retry_ret"
  /\ op[p] = "Clone"
  /\ pc' = [pc EXCEPT ![p] = "mkdirDest"]
  /\ statRes' = [statRes EXCEPT ![p] = "none"]
  /\ retries' = [retries EXCEPT ![p] = 0]
  /\ i' = [i EXCEPT ![p] = 0]
  /\ out' = [out EXCEPT ![p] = << >>]
  /\ err' = [err EXCEPT ![p] = "nil"]
  /\ hist' = [hist EXCEPT ![p].invoke = 0, ![p].sleep = 0, ![p].warn = 0]
  /\ UNCHANGED << clientVars, calls, lockVars, argVars, cancelled, cmd, dest, hash,
                  result, lastOutcome, mirror, origin >>

\* retryCommand returned to Clone: if err != nil { return nil, fmt.Errorf(...) };
\* from here on err is the next step's (err = os.MkdirAll(destination, ...))
CloneAfterUpdate(p) ==
  /\ pc[p] = "retry_ret"
  /\ op[p] = "Clone"
  /\ IF err[p] # "nil"
       THEN /\ CloneReturn(p, Failure(IF statRes[p] = "notexist" THEN "clone" ELSE "fetch"))
            /\ UNCHANGED << statRes, retryVars, hist >>
       ELSE /\ pc' = [pc EXCEPT ![p] = "mkdirDest"]
            /\ statRes' = [statRes EXCEPT ![p] = "none"]
            /\ retries' = [retries EXCEPT ![p] = 0]
            /\ i' = [i EXCEPT ![p] = 0]
            /\ out' = [out EXCEPT ![p] = << >>]
            /\ err' = [err EXCEPT ![p] = "nil"]
            /\ hist' = [hist EXCEPT ![p].invoke = 0, ![p].sleep = 0, ![p].warn = 0]
            /\ UNCHANGED << result, lastOutcome, mirror, origin >>
  /\ UNCHANGED << clientVars, calls, lockVars, argVars, cancelled, cmd, dest, hash >>

\* err = os.MkdirAll(destination, os.ModePerm)
CloneMkdirDest(p) ==
  /\ pc[p] = "mkdirDest"
  /\ \E ok \in BOOLEAN :
       IF ok
         THEN /\ dest' = [dest EXCEPT ![p] = "dir"]
              /\ pc' = [pc EXCEPT ![p] = "localClone"]
              /\ UNCHANGED << result, lastOutcome, mirror, origin >>
         ELSE /\ CloneReturn(p, Failure("mkdirDest"))
              /\ UNCHANGED dest
  /\ UNCHANGED << clientVars, calls, lockVars, argVars, cancelled, statRes, retryVars,
                  cmd, hash, hist >>

\* Mutant: the identity is applied only when both fields are set.
WantsUser_Both == username # "" /\ email # ""

\* if c.username != "" || c.email != ""
WantsUser == username # "" \/ email # ""

\* c.runGitCommand(ctx, "", "clone", repoCachePath, destination); NewRepo(...)
CloneLocal(p) ==
  /\ pc[p] = "localClone"
  /\ cmd' = [cmd EXCEPT ![p] =
       [ dir |-> "", verb |-> "clone", remote |-> NoRemote,
         path |-> RepoCachePath(repo[p]), dst |-> "destination", ref |-> "" ]]
  /\ hist' = [hist EXCEPT ![p].verbs = @ \cup {"clone"}]
  /\ \E ok \in BOOLEAN :
       /\ ok => mirror[repo[p]] # "absent"
       /\ IF ok
            THEN /\ dest' = [dest EXCEPT ![p] = "checkout"]
                 /\ IF WantsUser
                      THEN /\ pc' = [pc EXCEPT ![p] = "setUser"]
                           /\ UNCHANGED << result, lastOutcome, mirror, origin >>
                      ELSE CloneReturn(p, [ code |-> "ok",
                             handle |-> NewRepo(repo[p], "destination",
                                                Remote(base[p], repo[p])) ])
            ELSE /\ CloneReturn(p, Failure("localClone"))
                 /\ UNCHANGED dest
  /\ UNCHANGED << clientVars, calls, lockVars, argVars, cancelled, statRes, retryVars,
                  hash >>

\* r.SetUser(ctx, c.username, c.email)
CloneSetUser(p) ==
  /\ pc[p] = "setUser"
  /\ cmd' = [cmd EXCEPT ![p] =
       [ dir |-> "destination", verb |-> "config user", remote |-> NoRemote,
         path |-> "", dst |-> "", ref |-> "" ]]
  /\ hist' = [hist EXCEPT ![p].verbs = @ \cup {"config user"}]
  /\ \E ok \in BOOLEAN :
       IF ok
         THEN CloneReturn(p, [ code |-> "ok",
                handle |-> NewRepo(repo[p], "destination", Remote(base[p], repo[p])) ])
         ELSE CloneReturn(p, Failure("setUser"))
  /\ UNCHANGED << clientVars, calls, lockVars, argVars, cancelled, statRes, retryVars,
                  dest, hash >>

\* ------------------------------------------- GetLatestRemoteHashForBranch

\* strings.Split(s, "\t")[0]: everything before the first tab
RECURSIVE FirstField(_)
FirstField(s) ==
  IF s = << >> THEN << >>
  ELSE IF Head(s) = TAB THEN << >>
  ELSE << Head(s) >> \o FirstField(Tail(s))

\* GetLatestRemoteHashForBranch(ctx, remote, branch): ref := "refs/heads/" + branch
GetHashStart(p) ==
  /\ \E r \in Repos, br \in Branches : StartCall(p, "GetHash", CallerBase(p), r, br)
  /\ pc' = [pc EXCEPT ![p] = "retry_loop"]
  /\ retries' = [retries EXCEPT ![p] = LsRemoteRetries]
  /\ UNCHANGED << clientVars, calls, lockVars, mirror, origin, cancelled, statRes, i, out, err,
                  cmd, dest, result, hash, hist, lastOutcome >>

\* if err != nil { return "", err }; parts := strings.Split(...); return parts[0], nil
GetHashParse(p) ==
  /\ pc[p] = "retry_ret"
  /\ op[p] = "GetHash"
  /\ IF err[p] # "nil"
       THEN /\ result' = [result EXCEPT ![p] = Failure("lsRemote")]
            /\ hash' = [hash EXCEPT ![p] = << >>]
       ELSE /\ result' = [result EXCEPT ![p] = [ code |-> "ok", handle |-> NoHandle ]]
            /\ hash' = [hash EXCEPT ![p] = FirstField(out[p])]
  /\ pc' = [pc EXCEPT ![p] = "getHash_ret"]
  /\ UNCHANGED << clientVars, calls, lockVars, mirror, origin, argVars, cancelled, statRes, retryVars,
                  cmd, dest, hist, lastOutcome >>

\* the caller has received (hash, err)
GetHashDone(p) ==
  /\ pc[p] = "getHash_ret"
  /\ EndCall(p)
  /\ UNCHANGED << clientVars, calls, mu, repoLocks, locked, mirror, origin, lastOutcome >>

\* ------------------------------------------------------------------ Clean

\* What Clean leaves of a key's record: whether it removed something of the key.
WipedOutcome(r) ==
  IF mirror[r] # "absent" \/ lastOutcome[r] = "cleaned" THEN "cleaned" ELSE "none"

\* Mutant: Clean also empties the lock registry.
Clean_DropsLocks(p) ==
  /\ pc[p] = "idle"
  /\ mirror' = [r \in Repos |-> "absent"]
  /\ origin' = [r \in Repos |-> NoOrigin]
  /\ lastOutcome' = [r \in Repos |-> WipedOutcome(r)]
  /\ repoLocks' = [r \in Repos |-> 0]
  /\ UNCHANGED << clientVars, calls, mu, locked, muRef, pc, argVars, cancelled, statRes,
                  retryVars, cmd, dest, result, hash, hist >>

\* Mutant: Clean removes nothing.
Clean_KeepsMirrors(p) ==
  /\ pc[p] = "idle"
  /\ lastOutcome' = [r \in Repos |-> WipedOutcome(r)]
  /\ UNCHANGED << clientVars, calls, lockVars, mirror, origin, pc, argVars, cancelled, statRes,
                  retryVars, cmd, dest, result, hash, hist >>

\* os.RemoveAll(c.cacheDir): every mirror under the cache root is gone
Clean(p) ==
  /\ pc[p] = "idle"
  /\ mirror' = [r \in Repos |-> "absent"]
  /\ origin' = [r \in Repos |-> NoOrigin]
  /\ lastOutcome' = [r \in Repos |-> WipedOutcome(r)]
  /\ UNCHANGED << clientVars, calls, lockVars, pc, argVars, cancelled, statRes, retryVars,
                  cmd, dest, result, hash, hist >>

\* "After using Clean should be called to delete cache data": the caller
\* calls it once every user of the client has finished.
Quiesced == \A q \in Procs : pc[q] = "idle"

CleanAfterUse(p) == Quiesced /\ Clean(p)

\* ---------------------------------------------------------- specification

CloneSteps(p) ==
  \/ CloneStart(p)
  \/ LockRepoMu(p)
  \/ LockRepoMap(p)
  \/ LockRepoLock(p)
  \/ CloneStat(p)
  \/ CloneMkdirCache(p)
  \/ RetryInvoke(p)
  \/ RetrySleep(p)
  \/ RetryExhausted(p)
  \/ CloneAfterUpdate(p)
  \/ CloneMkdirDest(p)
  \/ CloneLocal(p)
  \/ CloneSetUser(p)
  \/ UnlockRepoMu(p)
  \/ UnlockRepoUnlock(p)

Next == \E p \in Procs : CloneSteps(p) \/ CleanAfterUse(p)

Spec == Init /\ [][Next]_vars

NextConcurrentClean == \E p \in Procs : CloneSteps(p) \/ Clean(p)

SpecConcurrentClean == Init /\ [][NextConcurrentClean]_vars

NextRetry ==
  \E p \in Procs :
    \/ RetryStart(p)
    \/ GetHashStart(p)
    \/ RetryInvoke(p)
    \/ RetrySleep(p)
    \/ RetryExhausted(p)
    \/ Cancel(p)
    \/ RetryDone(p)
    \/ GetHashParse(p)
    \/ GetHashDone(p)

SpecRetry == Init /\ [][NextRetry]_vars

\* The steps of a call in flight: everything Clone does after it was called.
InFlightSteps(p) ==
  \/ LockRepoMu(p)
  \/ LockRepoMap(p)
  \/ LockRepoLock(p)
  \/ CloneStat(p)
  \/ CloneMkdirCache(p)
  \/ RetryInvoke(p)
  \/ RetrySleep(p)
  \/ RetryExhausted(p)
  \/ CloneAfterUpdate(p)
  \/ CloneMkdirDest(p)
  \/ CloneLocal(p)
  \/ CloneSetUser(p)
  \/ UnlockRepoMu(p)
  \/ UnlockRepoUnlock(p)

\* A goroutine that can run does run, and every external command, os.Stat,
\* os.MkdirAll and time.Sleep returns: weak fairness of each call's steps. No
\* fairness of either mutex is assumed: the callers make finitely many calls,
\* so a goroutine waiting for c.mu finds it free for good in the end.
Fairness == \A p \in Procs : WF_vars(InFlightSteps(p))

NextLive == \E p \in Procs : CloneStartCounted(p) \/ InFlightSteps(p)

SpecLive == Init /\ [][NextLive]_vars /\ Fairness

\* ================================================================ claims

\* The caller is inside Clone between lockRepo's return and the return statement:
\* from the mirror existence check to the end of SetUser.
InSection(p) ==
  /\ op[p] = "Clone"
  /\ pc[p] \in {"stat", "mkdirCache", "retry_loop", "retry_sleep", "retry_ret",
                "mkdirDest", "localClone", "setUser"}

\* The caller has run its mirror update and not yet its local clone.
BetweenUpdateAndCheckout(p) ==
  op[p] = "Clone" /\ pc[p] \in {"mkdirDest", "localClone"}

\* The caller has acquired the per-key lock and not released it.
Holding(p) ==
  InSection(p) \/ (op[p] = "Clone" /\ pc[p] \in {"unlockRepo_mu", "unlockRepo_unlock"})

\* C1: for every repository identifier at most one Clone call is between its
\* mirror existence check and the end of its checkout/identity step, and every
\* caller in that section holds the key's lock (so no second caller's command
\* runs against the mirror between the first caller's update and local clone).
C1_OneCloneInSection ==
  \A p \in Procs :
    Holding(p) =>
      /\ muRef[p] = << repo[p], repoLocks[repo[p]] >>
      /\ muRef[p] \in locked
      /\ \A q \in Procs \ {p} : Holding(q) => repo[q] # repo[p]

\* C1 witness: one caller sits between its mirror update and its local clone
\* while a second caller for the same identifier is blocked on the key's lock.
C1_Witness ==
  \E p, q \in Procs :
    /\ p # q
    /\ BetweenUpdateAndCheckout(p)
    /\ op[q] = "Clone" /\ pc[q] = "lockRepo_lock" /\ repo[q] = repo[p]

\* The caller has decided which mirror update to run and is running it.
InUpdate(p) ==
  op[p] = "Clone" /\ pc[p] \in {"mkdirCache", "retry_loop", "retry_sleep", "retry_ret"}

UpdateVerbs == {"clone --mirror", "fetch"}

\* C2: a Clone that finds no mirror issues no fetch and its mirror-clone
\* succeeds exactly once when the update step succeeds (never twice), creating
\* the mirror; a Clone that finds the mirror issues fetch and no mirror-clone.
C2_CloneThenFetch ==
  \A p \in Procs :
    /\ (InUpdate(p) /\ statRes[p] = "notexist") =>
         /\ hist[p].seen = "absent"
         /\ hist[p].verbs \subseteq {"clone --mirror"}
         /\ hist[p].cloned <= 1
         /\ (pc[p] = "retry_ret" /\ err[p] = "nil") =>
              (hist[p].cloned = 1 /\ mirror[repo[p]] = "present")
    /\ (InUpdate(p) /\ statRes[p] = "exists") =>
         /\ hist[p].seen # "absent"
         /\ hist[p].verbs \subseteq {"fetch"}
         /\ hist[p].cloned = 0
         /\ pc[p] = "retry_ret" => hist[p].verbs = {"fetch"}
    /\ (op[p] = "Clone" /\ pc[p] \in {"mkdirDest", "localClone", "setUser"}) =>
         \/ hist[p].seen = "absent" /\ hist[p].verbs \cap UpdateVerbs = {"clone --mirror"}
                                    /\ hist[p].cloned = 1
         \/ hist[p].seen # "absent" /\ hist[p].verbs \cap UpdateVerbs = {"fetch"}
                                    /\ hist[p].cloned = 0

\* C2 witness: one caller has just mirror-cloned a never-seen identifier while
\* another has just fetched an identifier whose previous Clone had updated it.
C2_Witness ==
  \E p, q \in Procs :
    /\ pc[p] = "retry_ret" /\ op[p] = "Clone" /\ statRes[p] = "notexist"
    /\ err[p] = "nil" /\ hist[p].cloned = 1 /\ lastOutcome[repo[p]] = "none"
    /\ pc[q] = "retry_ret" /\ op[q] = "Clone" /\ statRes[q] = "exists"
    /\ err[q] = "nil" /\ hist[q].verbs = {"fetch"} /\ lastOutcome[repo[q]] = "updated"

\* The key's lock is held by a Clone call for that key.
KeyLockHeld(r) == \E p \in Procs : Holding(p) /\ repo[p] = r /\ muRef[p] \in locked

\* C3 as stated (refuted): whatever changes a mirror directory, Clean's removal
\* included, happens while the key's lock is held for it, and Clean never
\* removes a mirror under a Clone that is between its update and its local clone.
C3_EveryTouchUnderLock ==
  [][ /\ \A r \in Repos : mirror'[r] # mirror[r] =>
           \E p \in Procs : /\ Holding(p) /\ repo[p] = r /\ muRef[p] \in locked
                            /\ pc'[p] # pc[p]
      /\ \A p \in Procs :
           (BetweenUpdateAndCheckout(p) /\ mirror[repo[p]] # "absent")
             => mirror'[repo[p]] # "absent" ]_vars

\* C3 amended: the commands Clone runs against a mirror (clone --mirror, fetch,
\* the local clone) are issued only by a caller that holds that key's lock, alone
\* for that key; Clean takes no lock and may run at any moment.
C3_CloneTouchesUnderLock ==
  \A p \in Procs :
    (op[p] = "Clone" /\ (hist[p].verbs # {} \/ InUpdate(p) \/ pc[p] = "localClone")) =>
      /\ muRef[p] = << repo[p], repoLocks[repo[p]] >>
      /\ muRef[p] \in locked
      /\ \A q \in Procs \ {p} : Holding(q) => repo[q] # repo[p]

\* C3 witness: a caller holding the key's lock is about to clone from a mirror
\* that a concurrent Clean has removed after the caller's update.
C3_Witness ==
  \E p \in Procs :
    /\ op[p] = "Clone" /\ pc[p] = "localClone"
    /\ hist[p].last.ok /\ muRef[p] \in locked
    /\ mirror[repo[p]] = "absent"

\* The caller is inside retryCommand.
InRetry(p) == pc[p] \in {"retry_loop", "retry_sleep"}

\* C4 as stated (violated by the code): once the context is cancelled while
\* retryCommand is retrying (at least one attempt made), it invokes the
\* commander no more, sleeps no more, and what it returns is the cancellation.
C4_StopsOnCancel ==
  [][ \A p \in Procs :
        (InRetry(p) /\ cancelled[p] /\ hist[p].invoke >= 1) =>
          /\ hist'[p].invoke = hist[p].invoke
          /\ hist'[p].sleep = hist[p].sleep
          /\ pc'[p] = "retry_ret" => err'[p] = "canceled" ]_vars

\* C5: retryCommand with N >= 1 invokes the commander until its first success
\* or N invocations, never more than N times, never after a success, and
\* returns the out and err of the last invocation it made.
C5_RetryContract ==
  \A p \in Procs :
    (op[p] \in {"retry", "GetHash"} /\ retries[p] >= 1
       /\ pc[p] \in {"retry_loop", "retry_sleep", "retry_ret"}) =>
      /\ hist[p].invoke <= retries[p]
      /\ hist[p].afterOK = 0
      /\ pc[p] = "retry_loop" => (hist[p].invoke = i[p] /\ hist[p].warn = i[p])
      /\ pc[p] = "retry_sleep" => (hist[p].invoke = i[p] + 1 /\ ~hist[p].last.ok)
      /\ pc[p] = "retry_ret" =>
           /\ hist[p].invoke >= 1
           /\ out[p] = hist[p].last.out
           /\ err[p] = hist[p].last.err
           /\ (err[p] = "nil") = hist[p].last.ok
           /\ hist[p].last.ok => hist[p].warn = hist[p].invoke - 1
           /\ ~hist[p].last.ok => (hist[p].invoke = retries[p]
                                    /\ hist[p].warn = retries[p])

\* C5 witness: a direct call with the largest attempt count has returned the
\* error of its last attempt after using every attempt.
C5_Witness ==
  \E p \in Procs :
    /\ op[p] = "retry" /\ pc[p] = "retry_ret"
    /\ retries[p] = MaxRetries /\ hist[p].invoke = MaxRetries
    /\ err[p] = "failed" /\ out[p] = FailOutput

\* The caller is returning from Clone with this result (the deferred unlockRepo
\* is running).
Returning(p, code) ==
  /\ op[p] = "Clone"
  /\ pc[p] \in {"unlockRepo_mu", "unlockRepo_unlock"}
  /\ result[p].code = code

\* The caller's os.Stat has answered "exists" or "does not exist" and the call
\* is in the mirror update that answer selects.
Decided(p) == InUpdate(p) /\ statRes[p] \in {"exists", "notexist"}

\* C6: when the fetch fails with the retry budget exhausted, Clone returns an
\* error, has not attempted the local clone, and leaves the mirror as it found
\* it (not deleted, not replaced); the next Clone for the key again fetches.
C6_FetchFailureKeepsMirror ==
  /\ \A p \in Procs :
       Returning(p, "fetch") =>
         /\ result[p].handle = NoHandle
         /\ hist[p].invoke = FetchRetries /\ ~hist[p].last.ok
         /\ hist[p].verbs = {"fetch"}
         /\ dest[p] = "none"
         /\ mirror[repo[p]] = hist[p].seen /\ mirror[repo[p]] # "absent"
         /\ lastOutcome[repo[p]] = "fetchFailed"
  /\ \A p \in Procs :
       (op[p] = "Clone" /\ pc[p] \in {"mkdirDest", "localClone", "setUser"}) =>
         hist[p].last.ok
  /\ \A r \in Repos : lastOutcome[r] = "fetchFailed" => mirror[r] # "absent"
  /\ \A p \in Procs :
       (Decided(p) /\ lastOutcome[repo[p]] = "fetchFailed") =>
         (statRes[p] = "exists" /\ hist[p].verbs \subseteq {"fetch"})

\* C6 witness: the previous Clone of the key failed in fetch, and the next
\* Clone of the key has issued a fetch again.
C6_Witness ==
  \E p \in Procs :
    /\ Decided(p) /\ lastOutcome[repo[p]] = "fetchFailed"
    /\ hist[p].verbs = {"fetch"}

\* C7 as stated (refuted): after a mirror-clone that failed with the budget
\* exhausted the identifier is still UNKNOWN (nothing at the mirror path) and the
\* next Clone for the key attempts a mirror-clone, not a fetch.
C7_CloneFailureLeavesUnknown ==
  /\ \A r \in Repos :
       (lastOutcome[r] = "cloneFailed" /\ ~KeyLockHeld(r)) => mirror[r] = "absent"
  /\ \A p \in Procs :
       (Decided(p) /\ lastOutcome[repo[p]] = "cloneFailed") =>
         (statRes[p] = "notexist" /\ hist[p].verbs \subseteq {"clone --mirror"})

\* C7 amended: after a mirror-clone that failed with the budget exhausted Clone
\* returns an error with no checkout, and the mirror path holds what the failed
\* git runs left: nothing (the next Clone mirror-clones again) or partial output
\* (the next Clone sees it as existing and fetches); never a valid mirror.
C7_CloneFailureLeavesToolState ==
  /\ \A p \in Procs :
       Returning(p, "clone") =>
         /\ result[p].handle = NoHandle
         /\ hist[p].invoke = CloneRetries /\ ~hist[p].last.ok
         /\ hist[p].verbs = {"clone --mirror"} /\ hist[p].cloned = 0
         /\ dest[p] = "none"
         /\ mirror[repo[p]] \in {"absent", "partial"}
         /\ lastOutcome[repo[p]] = "cloneFailed"
  /\ \A r \in Repos :
       (lastOutcome[r] = "cloneFailed" /\ ~KeyLockHeld(r)) =>
         mirror[r] \in {"absent", "partial"}
  /\ \A p \in Procs :
       (Decided(p) /\ lastOutcome[repo[p]] = "cloneFailed") =>
         \/ hist[p].seen = "absent" /\ statRes[p] = "notexist"
                                    /\ hist[p].verbs \subseteq {"clone --mirror"}
         \/ hist[p].seen = "partial" /\ statRes[p] = "exists"
                                     /\ hist[p].verbs \subseteq {"fetch"}

\* C7 witness: the previous Clone of the key failed in its mirror-clone and left
\* nothing, and the next Clone of the key has issued a mirror-clone again.
C7_Witness ==
  \E p \in Procs :
    /\ Decided(p) /\ lastOutcome[repo[p]] = "cloneFailed"
    /\ hist[p].seen = "absent" /\ hist[p].verbs = {"clone --mirror"}

\* C8: when the mirror update succeeded and a later step of the same call
\* fails, Clone returns an error and the mirror stays in place, updated; the
\* next Clone for the key fetches.
C8_NoRollback ==
  /\ \A p \in Procs :
       (Returning(p, "mkdirDest") \/ Returning(p, "localClone")
          \/ Returning(p, "setUser")) =>
         /\ result[p].handle = NoHandle
         /\ hist[p].last.ok
         /\ mirror[repo[p]] # "absent"
         /\ hist[p].cloned = 1 => mirror[repo[p]] = "present"
         /\ hist[p].cloned = 0 => mirror[repo[p]] = hist[p].seen
         /\ lastOutcome[repo[p]] = "updated"
  /\ \A r \in Repos : lastOutcome[r] = "updated" => mirror[r] # "absent"
  /\ \A p \in Procs :
       (Decided(p) /\ lastOutcome[repo[p]] = "updated") =>
         (statRes[p] = "exists" /\ hist[p].verbs \subseteq {"fetch"})

\* C8 witness: a Clone whose mirror-clone succeeded is returning the error of
\* its local clone, the mirror in place.
C8_Witness ==
  \E p \in Procs :
    /\ Returning(p, "localClone") /\ hist[p].cloned = 1
    /\ mirror[repo[p]] = "present"

\* The caller is blocked in, or about to pass, mu.Lock() on the per-key mutex.
AtKeyLock(p) == op[p] = "Clone" /\ pc[p] = "lockRepo_lock"

\* C9: Clone calls for different identifiers do not block each other. A caller
\* waiting for a key's lock is held up only by a Clone of the same key (so with
\* the key free it can lock and run its update whatever other keys' holders are
\* doing), and the registry lock is held only across the map lookup in lockRepo
\* and the Unlock in unlockRepo: never while blocking on a per-key lock, never
\* while a command or a retry sleep runs.
C9_KeysIndependent ==
  /\ \A p \in Procs :
       (AtKeyLock(p) /\ ~MutexFree(muRef[p])) =>
         \E q \in Procs \ {p} : Holding(q) /\ repo[q] = repo[p]
  /\ \A p \in Procs :
       (AtKeyLock(p) /\ ~KeyLockHeld(repo[p])) => ENABLED LockRepoLock(p)
  /\ \A p \in Procs :
       mu = p <=> pc[p] \in {"lockRepo_map", "unlockRepo_unlock"}
  /\ \A p \in Procs : (AtKeyLock(p) \/ InSection(p)) => mu # p

\* C9 witness: two Clone calls for different identifiers are inside their mirror
\* updates at the same moment (one retrying, one sleeping between attempts).
C9_Witness ==
  \E p, q \in Procs :
    /\ repo[p] # repo[q]
    /\ op[p] = "Clone" /\ pc[p] = "retry_loop" /\ hist[p].invoke >= 1
    /\ op[q] = "Clone" /\ pc[q] = "retry_sleep"
    /\ mu = NoProc

\* The ls-remote output names the ref the call asked for.
HasRef(o, br) == \E k \in 1..Len(o) : o[k] = RefOf(br)

\* C10 as stated (violated by the code): when ls-remote succeeds with an output
\* that does not contain the requested ref (for one, an empty output),
\* GetLatestRemoteHashForBranch returns an error; it never returns an empty or
\* garbage hash with a nil error.
C10_FailsWithoutRef ==
  \A p \in Procs :
    (op[p] = "GetHash" /\ pc[p] = "getHash_ret" /\ result[p].code = "ok") =>
      /\ HasRef(out[p], branch[p])
      /\ hash[p] # << >>

\* The caller has issued at least one ls-remote of its GetLatestRemoteHashForBranch.
IssuedLsRemote(p) == op[p] = "GetHash" /\ cmd[p].verb = "ls-remote"

\* C11 as stated (violated by the code): every ls-remote that
\* GetLatestRemoteHashForBranch(remote, branch) issues, at most three of them,
\* names the caller's remote and the ref refs/heads/<branch>, and runs in no
\* mirror directory.
C11_QueriesGivenRemote ==
  \A p \in Procs :
    IssuedLsRemote(p) =>
      /\ cmd[p].remote = Remote(base[p], repo[p])
      /\ cmd[p].ref = RefOf(branch[p])
      /\ cmd[p].dir = "" /\ cmd[p].path = ""
      /\ hist[p].invoke <= LsRemoteRetries

\* The caller's mirror update has succeeded and its checkout is under way.
InCheckout(p) == op[p] = "Clone" /\ pc[p] \in {"mkdirDest", "localClone", "setUser"}

\* C12: after Clean (called with nothing in flight) nothing is left at any
\* mirror path, and the next Clone of an identifier whose mirror Clean removed
\* finds no mirror, creates the parent directory, issues mirror-clones and no
\* fetch, and goes on to its checkout exactly when one mirror-clone succeeded and
\* the mirror is there again.
C12_CleanResetsToUnknown ==
  /\ \A r \in Repos :
       (lastOutcome[r] = "cleaned" /\ ~KeyLockHeld(r)) =>
         (mirror[r] = "absent" /\ origin[r] = NoOrigin)
  /\ \A p \in Procs :
       (Decided(p) /\ lastOutcome[repo[p]] = "cleaned") =>
         /\ hist[p].seen = "absent" /\ statRes[p] = "notexist"
         /\ hist[p].verbs \subseteq {"clone --mirror"}
  /\ \A p \in Procs :
       (InCheckout(p) /\ lastOutcome[repo[p]] = "cleaned") =>
         /\ hist[p].seen = "absent"
         /\ hist[p].verbs \cap UpdateVerbs = {"clone --mirror"}
         /\ hist[p].cloned = 1
         /\ mirror[repo[p]] = "present" /\ origin[repo[p]] = base[p]
  /\ \A p \in Procs :
       (Returning(p, "ok") /\ hist[p].seen = "absent") =>
         (hist[p].cloned = 1 /\ "fetch" \notin hist[p].verbs)

\* C12 witness: the first Clone of an identifier since Clean removed its mirror
\* has mirror-cloned it afresh and is making its local clone.
C12_Witness ==
  \E p \in Procs :
    /\ op[p] = "Clone" /\ pc[p] = "localClone"
    /\ lastOutcome[repo[p]] = "cleaned"
    /\ hist[p].cloned = 1 /\ mirror[repo[p]] = "present"

\* The client was constructed with a non-empty user name or a non-empty email.
HasIdentity == username # "" \/ email # ""

\* The identity-configuration command has been issued on the caller's checkout.
UserConfigured(p) == "config user" \in hist[p].verbs

\* C13: with a non-empty user name or email, a Clone that returns a handle has
\* issued the identity configuration on the new working copy, after its local
\* clone and as its last command, and a Clone whose identity configuration
\* failed returns an error and no handle; with both empty, no Clone issues an
\* identity-configuration command.
C13_IdentityApplied ==
  \A p \in Procs :
    /\ (HasIdentity /\ Returning(p, "ok")) =>
         /\ result[p].handle # NoHandle
         /\ UserConfigured(p) /\ "clone" \in hist[p].verbs
         /\ cmd[p].verb = "config user" /\ cmd[p].dir = "destination"
         /\ dest[p] = "checkout"
    /\ (op[p] = "Clone" /\ pc[p] = "setUser") =>
         /\ HasIdentity /\ ~UserConfigured(p)
         /\ cmd[p].verb = "clone" /\ dest[p] = "checkout"
    /\ Returning(p, "setUser") =>
         /\ HasIdentity /\ UserConfigured(p)
         /\ result[p].handle = NoHandle
    /\ (op[p] = "Clone" /\ result[p].handle # NoHandle) => result[p].code = "ok"
    /\ ~HasIdentity => (~UserConfigured(p) /\ cmd[p].verb # "config user"
                                         /\ pc[p] # "setUser")

\* C13 witness: a client constructed with an identity is returning a handle
\* from a Clone that applied it.
C13_Witness ==
  \E p \in Procs :
    /\ HasIdentity /\ Returning(p, "ok")
    /\ UserConfigured(p) /\ result[p].handle # NoHandle

\* The return values Clone can leave with.
ReturnCodes ==
  {"ok", "stat", "mkdirCache", "clone", "fetch", "mkdirDest", "localClone", "setUser"}

\* The callers that hold this lock instance.
HoldersOf(inst) == {p \in Procs : Holding(p) /\ muRef[p] = inst}

\* C14: whichever way Clone returns, the per-key lock its lockRepo acquired
\* is still held when the return statement has run and is released by the
\* deferred unlockRepo, once, before the caller gets control: every locked
\* instance has exactly one holder, a call in flight; every call acquired its
\* lock once; with no call in flight no lock is held; and a caller waiting for
\* a key nobody holds can lock it.
C14_LockReleasedOnEveryReturn ==
  /\ \A p \in Procs :
       (op[p] = "Clone" /\ pc[p] \in {"unlockRepo_mu", "unlockRepo_unlock"}) =>
         /\ result[p].code \in ReturnCodes
         /\ muRef[p] \in locked
         /\ hist[p].lock = 1
  /\ \A p \in Procs : hist[p].lock = (IF Holding(p) THEN 1 ELSE 0)
  /\ \A inst \in locked : Cardinality(HoldersOf(inst)) = 1
  /\ \A p \in Procs : pc[p] = "idle" => (op[p] = "none" /\ muRef[p] = << >>)
  /\ Quiesced => locked = {}
  /\ \A p \in Procs :
       (AtKeyLock(p) /\ HoldersOf(muRef[p]) = {}) => ENABLED LockRepoLock(p)

\* C14 witness: the previous Clone of the key returned an error (its fetch
\* failed), and a later Clone of the same key has acquired the key's lock.
C14_Witness ==
  \E p \in Procs :
    /\ op[p] = "Clone" /\ pc[p] = "stat"
    /\ lastOutcome[repo[p]] = "fetchFailed"
    /\ muRef[p] \in locked

\* C15: no step of Clone removes what is at a mirror path (a mirror goes
\* away only in a step in which no caller moves: Clean), what a call found
\* there is still there while the call runs, and the Clone that comes after a
\* failed mirror-clone which left partial output sees the path as existing and
\* issues fetch, never a mirror-clone.
C15_PartialOutputKept ==
  /\ [](\A p \in Procs :
          /\ (InSection(p) /\ hist[p].seen \in {"partial", "present"}) =>
               mirror[repo[p]] = hist[p].seen
          /\ (Decided(p) /\ hist[p].seen = "partial") =>
               /\ statRes[p] = "exists"
               /\ hist[p].verbs \subseteq {"fetch"}
               /\ hist[p].cloned = 0)
  /\ [][ \A r \in Repos :
           (mirror[r] # "absent" /\ mirror'[r] = "absent") => pc' = pc ]_vars

\* C15 witness: the previous Clone of the key failed in its mirror-clone and
\* left partial output, and the next Clone of the key has issued a fetch.
C15_Witness ==
  \E p \in Procs :
    /\ Decided(p) /\ lastOutcome[repo[p]] = "cloneFailed"
    /\ hist[p].seen = "partial" /\ mirror[repo[p]] = "partial"
    /\ hist[p].verbs = {"fetch"}

\* A direct retryCommand call, or the one of GetLatestRemoteHashForBranch, has
\* returned the result of a successful attempt.
ReturnedSuccess(p) ==
  /\ op[p] \in {"retry", "GetHash"}
  /\ pc[p] = "retry_ret"
  /\ err[p] = "nil" /\ hist[p].invoke >= 1

\* C16: when the commander fails k < N times and then succeeds, retryCommand
\* returns the successful attempt's out with a nil error after k + 1
\* invocations, has logged exactly k warnings, the j-th carrying the number j
\* (i + 1 at the j-th failure), has slept exactly k times, each time after a
\* failed attempt, and not after the successful one.
C16_FailsThenSucceeds ==
  \A p \in Procs :
    /\ ReturnedSuccess(p) =>
         /\ hist[p].last.ok /\ out[p] = hist[p].last.out
         /\ hist[p].invoke = i[p] + 1 /\ hist[p].invoke <= retries[p]
         /\ hist[p].warn = i[p]
         /\ hist[p].sleep = i[p]
    /\ (op[p] \in {"retry", "GetHash"} /\ pc[p] = "retry_sleep") =>
         /\ ~hist[p].last.ok /\ err[p] # "nil"
         /\ hist[p].warn = i[p] + 1
         /\ hist[p].sleep = i[p]
    /\ (op[p] \in {"retry", "GetHash"} /\ pc[p] = "retry_loop") =>
         /\ hist[p].sleep = i[p] /\ hist[p].warn = i[p]
         /\ i[p] >= 1 => ~hist[p].last.ok

\* C16 witness: the tested case, N = 3 and k = 2: a direct call has returned
\* the third attempt's success after two warnings and two sleeps.
C16_Witness ==
  \E p \in Procs :
    /\ ReturnedSuccess(p) /\ op[p] = "retry"
    /\ retries[p] = 3 /\ hist[p].invoke = 3
    /\ hist[p].warn = 2 /\ hist[p].sleep = 2
    /\ out[p] # FailOutput

\* C17: when os.Stat fails with an error that is not "does not exist", Clone
\* returns that error at once: the call issues no command at all (no
\* mirror-clone, no fetch, no local clone), enters no retry, creates nothing at
\* the destination, and leaves the mirror and its key's record as they were; a
\* call that goes on to any later step has had a plain answer from os.Stat.
C17_StatErrorFailsAtOnce ==
  \A p \in Procs :
    /\ Returning(p, "stat") =>
         /\ statRes[p] = "error"
         /\ result[p].handle = NoHandle
         /\ hist[p].verbs = {} /\ cmd[p] = NoCmd
         /\ hist[p].invoke = 0 /\ hist[p].sleep = 0 /\ hist[p].warn = 0
         /\ retries[p] = 0 /\ i[p] = 0
         /\ dest[p] = "none"
         /\ mirror[repo[p]] = hist[p].seen
         /\ origin[repo[p]] = NoOrigin <=> hist[p].seen = "absent"
    /\ (op[p] = "Clone" /\ statRes[p] = "error") => Returning(p, "stat")
    /\ InUpdate(p) => statRes[p] \in {"exists", "notexist"}
    /\ (op[p] = "Clone" /\ hist[p].verbs # {}) => result[p].code # "stat"

\* C17 witness: a Clone of an identifier whose mirror is in place is returning
\* the error of its existence check, the mirror untouched.
C17_Witness ==
  \E p \in Procs :
    /\ Returning(p, "stat") /\ hist[p].seen = "present"
    /\ mirror[repo[p]] = "present" /\ lastOutcome[repo[p]] = "updated"

\* The keys of c.repoLocks.
RegistryKeys(locks) == {r \in Repos : locks[r] # 0}

\* The caller has read its key's lock out of the registry (mu := c.repoLocks[key]).
HasLockRef(p) == op[p] = "Clone" /\ muRef[p] # << >>

\* C18: the registry holds at most one lock instance per identifier: the
\* instance a key maps to is the first one inserted for it, every caller that
\* has looked up a key holds a reference to the instance the registry maps the
\* key to (so concurrent first-time callers contend on one instance), only that
\* instance is ever locked, and no step, Clean included, removes or replaces an
\* entry: the set of keys only grows.
C18_OneLockPerKey ==
  /\ [](/\ \A r \in Repos : repoLocks[r] \in {0, 1}
        /\ \A p \in Procs :
             HasLockRef(p) =>
               (repo[p] \in RegistryKeys(repoLocks)
                  /\ muRef[p] = << repo[p], repoLocks[repo[p]] >>)
        /\ \A p, q \in Procs :
             (HasLockRef(p) /\ HasLockRef(q) /\ repo[p] = repo[q]) => muRef[p] = muRef[q]
        /\ \A inst \in locked : inst = << inst[1], repoLocks[inst[1]] >>)
  /\ [][ /\ RegistryKeys(repoLocks) \subseteq RegistryKeys(repoLocks')
         /\ \A r \in RegistryKeys(repoLocks) : repoLocks'[r] = repoLocks[r] ]_vars

\* C18 witness: two callers made their first lockRepo call for a never-seen
\* key at the same time; both have left the registry with the same instance
\* and neither has locked it yet, while the other key has no entry.
C18_Witness ==
  \E p, q \in Procs :
    /\ p # q /\ AtKeyLock(p) /\ AtKeyLock(q)
    /\ repo[p] = repo[q] /\ muRef[p] = muRef[q]
    /\ locked = {} /\ lastOutcome[repo[p]] = "none"
    /\ RegistryKeys(repoLocks) = {repo[p]}

\* The caller's Clone names another base than the one the key's mirror was
\* cloned from.
OtherBase(p) ==
  /\ op[p] = "Clone"
  /\ origin[repo[p]] \notin {NoOrigin, base[p]}

\* C19: the base is no part of the key. A Clone(base2, name) that finds the
\* mirror an earlier Clone(base1, name) made takes the same lock instance and
\* the same mirror path as any Clone of that name, issues fetch (in the mirror
\* directory, naming no remote) and never a mirror-clone, leaves the mirror
\* bound to base1, and the handle it returns is bound to base2/name.
C19_KeyedByNameOnly ==
  \A p \in Procs :
    /\ (op[p] = "Clone" /\ Holding(p)) => muRef[p] = << repo[p], 1 >>
    /\ (op[p] = "Clone" /\ cmd[p].verb \in {"clone --mirror", "clone"}) =>
         cmd[p].path = RepoCachePath(repo[p])
    /\ (op[p] = "Clone" /\ cmd[p].verb = "clone --mirror") =>
         (cmd[p].remote = Remote(base[p], repo[p]) /\ hist[p].seen = "absent")
    /\ (op[p] = "Clone" /\ cmd[p].verb = "fetch") =>
         (cmd[p].dir = RepoCachePath(repo[p]) /\ cmd[p].remote = NoRemote)
    /\ (OtherBase(p) /\ InSection(p) /\ hist[p].seen = "present") =>
         /\ hist[p].verbs \cap UpdateVerbs \subseteq {"fetch"}
         /\ hist[p].cloned = 0
         /\ mirror[repo[p]] = "present"
    /\ (OtherBase(p) /\ Returning(p, "ok")) =>
         /\ hist[p].verbs \cap UpdateVerbs = {"fetch"}
         /\ hist[p].cloned = 0
    /\ Returning(p, "ok") =>
         /\ result[p].handle.name = repo[p]
         /\ result[p].handle.remote = Remote(base[p], repo[p])

\* C19 witness: the key's mirror was cloned from one base and its last Clone
\* succeeded in updating it; a Clone of the same name with the other base is
\* returning a handle after a fetch.
C19_Witness ==
  \E p \in Procs :
    /\ OtherBase(p) /\ Returning(p, "ok")
    /\ hist[p].seen = "present" /\ hist[p].verbs \cap UpdateVerbs = {"fetch"}
    /\ result[p].handle.remote = Remote(base[p], repo[p])
    /\ result[p].handle.remote # Remote(origin[repo[p]], repo[p])

\* The caller is inside a Clone call.
InFlight(p) == op[p] = "Clone" /\ pc[p] # "idle"

\* The caller's next step waits for a lock somebody else has.
Blocked(p) == InFlight(p) /\ ~ENABLED InFlightSteps(p)

\* C20: the two locks cannot deadlock. Never are all calls in flight blocked;
\* a blocked call waits either for c.mu, which its holder releases in its next
\* step without waiting for anything, or for its key's lock, held by a call of
\* the same key that is not blocked on a per-key lock; nobody holds c.mu while
\* waiting for a per-key lock; and every call that has acquired its per-key
\* lock releases it and returns.
C20_NoDeadlock ==
  /\ []((\E p \in Procs : InFlight(p)) => (\E p \in Procs : InFlight(p) /\ ~Blocked(p)))
  /\ [](\A p \in Procs :
          /\ Blocked(p) => pc[p] \in {"lockRepo_mu", "lockRepo_lock", "unlockRepo_mu"}
          /\ (Blocked(p) /\ pc[p] = "lockRepo_lock") =>
               (mu # p /\ \E q \in Procs \ {p} : Holding(q) /\ repo[q] = repo[p])
          /\ mu = p => ~Blocked(p))
  /\ \A p \in Procs : Holding(p) ~> pc[p] = "idle"

\* C20 witness: one caller holds a key's lock and is about to take c.mu in
\* unlockRepo while the other caller waits for that key's lock.
C20_Witness ==
  \E p, q \in Procs :
    /\ p # q /\ repo[p] = repo[q]
    /\ op[p] = "Clone" /\ pc[p] = "unlockRepo_mu"
    /\ Blocked(q) /\ pc[q] = "lockRepo_lock"
    /\ ~Blocked(p)

====
